---- MODULE Spec2Model ----
(***************************************************************************)
(* ModbusControl master (gicking/ModbusControl, Python_master):            *)
(* BaseClient.read_input_register, read_holding_register,                  *)
(* write_holding_register and execute_command, run against a Modbus RTU    *)
(* slave that follows the ModbusControl high-level protocol.               *)
(*                                                                         *)
(* Time is counted in ticks of 50 ms: time.sleep(0.05) is one tick, the    *)
(* default command timeout of 0.2 s is four ticks.  A transport call       *)
(* (client.execute) takes between 1 and MaxDur ticks.  Elapsed times       *)
(* saturate at ElapsedCap, which lies above every timeout in use, so every *)
(* comparison "elapsed < timeout" of the code keeps its exact result.      *)
(***************************************************************************)
EXTENDS Integers, Sequences, FiniteSets, TLC

\* ------------------------------------------------------------------------
\* Program constants
\* ------------------------------------------------------------------------
blocksize == 100

timeout_command == 4

timeout_modbus == 2

SleepTicks == 1

NoOverride == 0

Bit15 == 32768

Bit14 == 16384

Word == 65536

MODBUSCONTROL_ADDR_PROTOCOL == 0

\* example.py, class Client: the commands of the example device
MODBUS_CMD_SET_PIN == 32769

MODBUS_CMD_GET_PIN == 32770

MODBUS_CMD_DELAY == 32771

MODBUS_CMD_DELAY_NOSERIAL == 32772

MODBUS_CMD_TEST == 49151

ILLEGAL_CMD == -1

ILLEGAL_PARAM == -2

ILLEGAL_DATA_ADDRESS == 2

SLAVE_DEVICE_BUSY == 6

\* ------------------------------------------------------------------------
\* Bounds of the model
\* ------------------------------------------------------------------------
MaxCalls == 1

MaxDur == 2

NumInReg == 210

NumHoldReg == 210

LongLen == 200

TimeoutCommandOverride == 2

TimeoutModbusOverride == 5

MaxTransfer == 1000

\* ------------------------------------------------------------------------
\* Helpers
\* ------------------------------------------------------------------------
Min(a, b) == IF a < b THEN a ELSE b

Max(a, b) == IF a > b THEN a ELSE b

ElapsedCap == Max(timeout_command, TimeoutCommandOverride) + 1

\* a clock reading d ticks later, saturating above every timeout
Later(t, d) == Min(t + d, ElapsedCap)

\* list.reverse()
Reverse(s) == [i \in 1..Len(s) |-> s[Len(s) + 1 - i]]

\* Python slice s[lo:hi] for 0 <= lo
Slice(s, lo, hi) == SubSeq(s, lo + 1, Min(hi, Len(s)))

\* (variant: bit 14 tested in place of bit 15)
PendingBit14(v) == (v \div Bit14) % 2 = 1

\* value & 0x8000 != 0, value & 0x4000 != 0
Pending(v) == (v \div Bit15) % 2 = 1

ErrorFlag(v) == (v \div Bit14) % 2 = 1

\* members of the enum ModbusStatus (Modbus exception codes with a name)
ModbusStatus == (0..10) \cup {255}

\* members of the enum ModbusControlStatus
ModbusControlStatus == {ILLEGAL_CMD, ILLEGAL_PARAM}

\* the while loop that splits [address, address+num_out) into (start, length)
RECURSIVE SplitRange(_, _, _)
SplitRange(curr, end, acc) ==
    IF curr < end
    THEN LET next == Min(curr + blocksize, end)
         IN  SplitRange(next, end, Append(acc, <<curr, next - curr>>))
    ELSE acc

\* the for loop over range(0, len(values), blocksize): (address, values slice)
RECURSIVE SplitValues(_, _, _, _)
SplitValues(address, values, idx, acc) ==
    IF idx < Len(values)
    THEN SplitValues(address, values, idx + blocksize,
                     Append(acc, <<address + (idx \div blocksize) * blocksize,
                                   Slice(values, idx, idx + blocksize)>>))
    ELSE acc

\* (variant: the end of the range taken one register too far)
InputBlocksInclusive(address, num_out) == SplitRange(address, address + num_out + 1, <<>>)

\* _blocks of read_input_register: ascending addresses
InputBlocks(address, num_out) == SplitRange(address, address + num_out, <<>>)

\* (variant: _blocks.reverse() left out of read_holding_register)
HoldingBlocksAscending(address, num_out) == SplitRange(address, address + num_out, <<>>)

\* _blocks of read_holding_register: reversed, address 0 last
HoldingBlocks(address, num_out) == Reverse(SplitRange(address, address + num_out, <<>>))

\* _blocks of write_holding_register: reversed, address 0 last
\* (variant: _blocks.reverse() left out)
WriteBlocksAscending(address, values) == SplitValues(address, values, 0, <<>>)

WriteBlocks(address, values) == Reverse(SplitValues(address, values, 0, <<>>))

\* _result = list(_reg) + _result  (read_holding_register)
\* (variant: _result = _result + list(_reg))
MergeAppend(reg, result) == result \o reg

MergeHolding(reg, result) == reg \o result

\* _result = list(_reg) + _result  (read_input_register)
MergeInput(reg, result) == reg \o result

\* if _err > 2 ** 15: _err = -(2 ** 16 - _err)
DecodeError(err) == IF err > Bit15 THEN -(Word - err) ELSE err

\* ------------------------------------------------------------------------
\* The slave
\* ------------------------------------------------------------------------
\* input registers: address 0 holds the protocol version times ten,
\* the others device-defined read-only values (here: distinct per address)
InReg(version) == [a \in 0..(NumInReg - 1) |-> IF a = 0 THEN version ELSE 1000 + a]

\* holding registers after power-up: no command pending
HoldInit == [a \in 0..(NumHoldReg - 1) |-> IF a = 0 THEN 0 ELSE 500 + a]

\* quantity registers of a bank starting at address
RegsAt(bank, address, quantity) == [i \in 1..quantity |-> bank[address + i - 1]]

\* the bank after WRITE_MULTIPLE_REGISTERS of values at address
Stored(bank, address, values) ==
    [a \in DOMAIN bank |->
        IF a >= address /\ a < address + Len(values) THEN values[a - address + 1] ELSE bank[a]]

\* ------------------------------------------------------------------------
\* State
\* ------------------------------------------------------------------------
VARIABLES
    holdReg,        \* slave: holding registers, holdReg[0] is the control word
    version,        \* slave: raw value of input register 0
    shortResp,      \* transport: TRUE if a read may deliver fewer registers than requested
    clientTimeout,  \* self.client: receive timeout last given to set_timeout
    call,           \* the caller's current (or last) call of a BaseClient method
    op,             \* frame of the register method that is running
    outcome,        \* how the caller's call ended, kind "running" while it has not
    ncalls,         \* number of calls made
    oplog,          \* transport requests issued by the running register method
    cmdElapsed,     \* ticks since the caller's call began
    lastDecision,   \* last retry-or-abort decision of the caller's call
    ctrlSent,       \* the call's block at address 0 has reached the slave
    devChanged,     \* a holding register was changed by the slave or by the second caller
                    \* since the register method began
    lastPoll,       \* execute_command: _reg of the last poll
    checked,        \* session: result of the last completed version comparison
    other,          \* a second caller of execute_command on the same connection
    arg,            \* input of the function under study (function specifications)
    res             \* its result

vars == <<holdReg, version, shortResp, clientTimeout, call, op, outcome, ncalls, oplog,
          cmdElapsed, lastDecision, ctrlSent, devChanged, lastPoll, checked, other, arg, res>>

slaveVars == <<holdReg, version, shortResp>>

funVars == <<arg, res>>

NoCall ==
    [fn |-> "none", address |-> 0, num_out |-> 0, values |-> <<>>, command |-> 0,
     param_in |-> <<>>, tmo |-> NoOverride, tc |-> NoOverride]

NoOp ==
    [fn |-> "none", blocks |-> <<>>, idx |-> 1, result |-> <<>>, elapsed |-> 0,
     T |-> 0, tmo |-> NoOverride, attempt |-> 0, pc |-> "idle"]

NoDecision == [kind |-> "none", opElapsed |-> 0, cmdElapsed |-> 0, T |-> 0]

Running == [kind |-> "running", why |-> "", values |-> <<>>, code |-> 0]

Ended(kind, why, values, code) == [kind |-> kind, why |-> why, values |-> values, code |-> code]

\* the second caller while it has not called
NoOther ==
    [pc |-> "idle", command |-> 0, param_in |-> <<>>, num_out |-> 0, overwrote |-> 0,
     outcome |-> Ended("none", "", <<>>, 0)]

\* str(round(float(raw * 0.1), 1)) of a register value: the decimal digits
\* before the point and the one digit after it
\* (variant: the digit after the point dropped)
VersionStringTruncated(raw) == <<raw \div 10, 0>>

VersionString(raw) == <<raw \div 10, raw % 10>>

\* MODBUSCONTROL_PROTOCOL = "1.0"
MODBUSCONTROL_PROTOCOL == <<1, 0>>

\* _timeout_command = timeout_command if timeout_command is not None else self._timeout_command
EffectiveTimeout(tc) == IF tc # NoOverride THEN tc ELSE timeout_command

\* frame of a register method at its retry loop: blocks computed, clock started
NewOp(fn, blocks, tmo, tc) ==
    [fn |-> fn, blocks |-> blocks, idx |-> 1,
     result |-> IF fn = "write_holding_register" THEN <<0, 0>> ELSE <<>>,
     elapsed |-> 0, T |-> EffectiveTimeout(tc), tmo |-> tmo, attempt |-> 1, pc |-> "try"]

\* if time.time() - _start_time < _timeout_command
\* (variant: <= _timeout_command)
BeforeDeadlineInclusive(elapsed, T) == elapsed <= T

BeforeDeadline(elapsed, T) == elapsed < T

\* (variant: self.client.set_timeout(timeout_modbus) without the test for
\* None)
OverriddenUnchecked(tmo, current) == tmo

\* if timeout_modbus is not None: self.client.set_timeout(timeout_modbus)
Overridden(tmo, current) == IF tmo # NoOverride THEN tmo ELSE current

\* if timeout_modbus is not None: self.client.set_timeout(self._timeout_modbus)
Restored(tmo, current) == IF tmo # NoOverride THEN timeout_modbus ELSE current

\* the request of the block the running method transmits next
CurBlock == op.blocks[op.idx]

CurQuantity == IF op.fn = "write_holding_register" THEN Len(CurBlock[2]) ELSE CurBlock[2]

CurBankSize == IF op.fn = "read_input_register" THEN NumInReg ELSE NumHoldReg

\* the slave accepts the request: at least one register, all inside the bank
CurLegal == CurQuantity >= 1 /\ CurBlock[1] + CurQuantity <= CurBankSize

Transmitting == op.pc = "try" /\ op.idx <= Len(op.blocks)

Completed == op.pc = "try" /\ op.idx > Len(op.blocks)

\* log entry of the request: how execute() ended ("ok", "invalid" response,
\* Modbus "exception", "other" exception); ok tells whether it returned normally
Request(result) ==
    [fn |-> op.fn, address |-> CurBlock[1], quantity |-> CurQuantity,
     attempt |-> op.attempt, ok |-> (result = "ok"), result |-> result]

\* numbers of registers a read of quantity registers may deliver
RespLens(quantity) == IF shortResp THEN {quantity} \cup ({0, 1} \cap (0..quantity)) ELSE {quantity}

\* ------------------------------------------------------------------------
\* Initial state: port open, timeouts set by __init__, slave idle
\* ------------------------------------------------------------------------
InitSession ==
    /\ holdReg = HoldInit
    /\ clientTimeout = timeout_modbus
    /\ call = NoCall
    /\ op = NoOp
    /\ outcome = Ended("none", "", <<>>, 0)
    /\ ncalls = 0
    /\ oplog = <<>>
    /\ cmdElapsed = 0
    /\ lastDecision = NoDecision
    /\ ctrlSent = FALSE
    /\ devChanged = FALSE
    /\ lastPoll = <<>>
    /\ checked = "no"
    /\ other = NoOther

\* the slave implements protocol version 1.0
InitCommon ==
    /\ InitSession
    /\ version = 10

Init ==
    /\ InitCommon
    /\ shortResp = FALSE
    /\ arg = 0
    /\ res = <<>>

\* ------------------------------------------------------------------------
\* The caller starts a method
\* ------------------------------------------------------------------------
Begin(c, o) ==
    /\ outcome.kind # "running"
    /\ ncalls < MaxCalls
    /\ call' = c
    /\ op' = o
    /\ outcome' = Running
    /\ ncalls' = ncalls + 1
    /\ clientTimeout' = Overridden(c.tmo, clientTimeout)
    /\ oplog' = <<>>
    /\ cmdElapsed' = 0
    /\ lastDecision' = NoDecision
    /\ ctrlSent' = FALSE
    /\ devChanged' = FALSE
    /\ lastPoll' = <<>>
    /\ UNCHANGED <<slaveVars, checked, other, funVars>>

read_input_register(address, num_out, tmo, tc) ==
    Begin([NoCall EXCEPT !.fn = "read_input_register", !.address = address,
                         !.num_out = num_out, !.tmo = tmo, !.tc = tc],
          NewOp("read_input_register", InputBlocks(address, num_out), tmo, tc))

read_holding_register(address, num_out, tmo, tc) ==
    Begin([NoCall EXCEPT !.fn = "read_holding_register", !.address = address,
                         !.num_out = num_out, !.tmo = tmo, !.tc = tc],
          NewOp("read_holding_register", HoldingBlocks(address, num_out), tmo, tc))

write_holding_register(address, values, tmo, tc) ==
    Begin([NoCall EXCEPT !.fn = "write_holding_register", !.address = address,
                         !.values = values, !.tmo = tmo, !.tc = tc],
          NewOp("write_holding_register", WriteBlocks(address, values), tmo, tc))

\* (variant: the pending flag masked out of the command)
DispatchValuesMasked(command, param_in) == <<command % Bit15>> \o param_in

\* values=[command] + param_in
DispatchValues(command, param_in) == <<command>> \o param_in

\* the dispatch: write_holding_register(address=0, values=[command] + param_in)
execute_command(command, param_in, num_out, tmo, tc) ==
    Begin([NoCall EXCEPT !.fn = "execute_command", !.command = command,
                         !.param_in = param_in, !.num_out = num_out,
                         !.values = DispatchValues(command, param_in), !.tmo = tmo, !.tc = tc],
          NewOp("write_holding_register", WriteBlocks(0, DispatchValues(command, param_in)), tmo, tc))

\* example.py, Client.set_pin
set_pin(pin, state) ==
    execute_command(MODBUS_CMD_SET_PIN, <<pin, state>>, 0, NoOverride, NoOverride)

\* example.py, Client.read_pin
read_pin(pin) ==
    execute_command(MODBUS_CMD_GET_PIN, <<pin>>, 2, NoOverride, NoOverride)

\* example.py, Client.delay: both timeouts given, computed from millis
delay(millis) ==
    execute_command(MODBUS_CMD_DELAY, <<millis>>, 0, TimeoutModbusOverride, TimeoutCommandOverride)

\* example.py, Client.delay_no_serial: both timeouts given, computed from millis
delay_no_serial(millis) ==
    execute_command(MODBUS_CMD_DELAY_NOSERIAL, <<millis>>, 0, TimeoutModbusOverride,
                    TimeoutCommandOverride)

\* the dummy test command of the example device, without parameters
test_command ==
    execute_command(MODBUS_CMD_TEST, <<>>, 0, NoOverride, NoOverride)

\* check_protocol_version(slave): the call and the frame of its
\* read_input_register(slave=slave, address=MODBUSCONTROL_ADDR_PROTOCOL, num_out=1)
VersionCall ==
    [NoCall EXCEPT !.fn = "check_protocol_version",
                   !.address = MODBUSCONTROL_ADDR_PROTOCOL, !.num_out = 1]

VersionRead ==
    NewOp("read_input_register", InputBlocks(MODBUSCONTROL_ADDR_PROTOCOL, 1),
          NoOverride, NoOverride)

check_protocol_version == Begin(VersionCall, VersionRead)

\* ------------------------------------------------------------------------
\* One transport call self.client.execute(...) of the running register method
\* ------------------------------------------------------------------------
\* the call ends by raising: outcome o, receive timeout restored or not
Raise(o, restore) ==
    /\ outcome' = o
    /\ op' = NoOp
    /\ clientTimeout' = IF restore THEN Restored(op.tmo, clientTimeout) ELSE clientTimeout

\* READ_INPUT_REGISTERS answered: _result = list(_reg) + _result
rir_execute ==
    /\ op.fn = "read_input_register"
    /\ Transmitting
    /\ CurLegal
    /\ \E d \in 1..MaxDur, len \in RespLens(CurQuantity) :
        /\ op' = [op EXCEPT !.result = MergeInput(SubSeq(RegsAt(InReg(version), CurBlock[1], CurQuantity), 1, len), @),
                            !.idx = @ + 1,
                            !.elapsed = Later(@, d)]
        /\ cmdElapsed' = Later(cmdElapsed, d)
    /\ oplog' = Append(oplog, Request("ok"))
    /\ UNCHANGED <<slaveVars, clientTimeout, call, outcome, ncalls, lastDecision, ctrlSent,
                   devChanged, lastPoll, checked, other, funVars>>

\* READ_HOLDING_REGISTERS answered: _result = list(_reg) + _result
rhr_execute ==
    /\ op.fn = "read_holding_register"
    /\ Transmitting
    /\ CurLegal
    /\ \E d \in 1..MaxDur, len \in RespLens(CurQuantity) :
        /\ op' = [op EXCEPT !.result = MergeHolding(SubSeq(RegsAt(holdReg, CurBlock[1], CurQuantity), 1, len), @),
                            !.idx = @ + 1,
                            !.elapsed = Later(@, d)]
        /\ cmdElapsed' = Later(cmdElapsed, d)
    /\ oplog' = Append(oplog, Request("ok"))
    /\ UNCHANGED <<slaveVars, clientTimeout, call, outcome, ncalls, lastDecision, ctrlSent,
                   devChanged, lastPoll, checked, other, funVars>>

\* WRITE_MULTIPLE_REGISTERS acknowledged with (starting address, quantity):
\* _result[0] = _reg[0]; _result[1] += _reg[1]
whr_execute ==
    /\ op.fn = "write_holding_register"
    /\ Transmitting
    /\ CurLegal
    /\ holdReg' = Stored(holdReg, CurBlock[1], CurBlock[2])
    /\ \E d \in 1..MaxDur :
        /\ op' = [op EXCEPT !.result = <<CurBlock[1], @[2] + CurQuantity>>,
                            !.idx = @ + 1,
                            !.elapsed = Later(@, d)]
        /\ cmdElapsed' = Later(cmdElapsed, d)
    /\ oplog' = Append(oplog, Request("ok"))
    /\ ctrlSent' = (ctrlSent \/ CurBlock[1] = 0)
    /\ UNCHANGED <<version, shortResp, clientTimeout, call, outcome, ncalls, lastDecision,
                   devChanged, lastPoll, checked, other, funVars>>

\* except ModbusInvalidResponseError: no, a garbled or a late response.
\* A write may have reached the slave all the same.  Before the deadline the
\* method backs off and retries, from it on it raises ModbusControlError.
InvalidResponse ==
    /\ op.fn # "none"
    /\ Transmitting
    /\ \E d \in 1..MaxDur, reached \in BOOLEAN :
        LET el  == Later(op.elapsed, d)
            cel == Later(cmdElapsed, d)
        IN  /\ reached => (op.fn = "write_holding_register" /\ CurLegal)
            /\ holdReg' = IF reached THEN Stored(holdReg, CurBlock[1], CurBlock[2]) ELSE holdReg
            /\ ctrlSent' = (ctrlSent \/ (reached /\ CurBlock[1] = 0))
            /\ cmdElapsed' = cel
            /\ IF BeforeDeadline(el, op.T)
               THEN /\ op' = [op EXCEPT !.pc = "sleep", !.elapsed = el]
                    /\ lastDecision' = [kind |-> "retry", opElapsed |-> el, cmdElapsed |-> cel, T |-> op.T]
                    /\ UNCHANGED <<outcome, clientTimeout>>
               ELSE /\ Raise(Ended("ModbusControlError", "timeout", <<>>, 0), TRUE)
                    /\ lastDecision' = [kind |-> "abort", opElapsed |-> el, cmdElapsed |-> cel, T |-> op.T]
    /\ oplog' = Append(oplog, Request("invalid"))
    /\ UNCHANGED <<version, shortResp, call, ncalls, devChanged, lastPoll, checked, other, funVars>>

\* (variant of Backoff: _result initialised once before the retry loop, the
\* values of the failed attempt kept)
BackoffKeepsResult ==
    /\ op.pc = "sleep"
    /\ op' = [op EXCEPT !.pc = "try", !.idx = 1, !.attempt = @ + 1,
                        !.elapsed = Later(@, SleepTicks)]
    /\ cmdElapsed' = Later(cmdElapsed, SleepTicks)
    /\ UNCHANGED <<slaveVars, clientTimeout, call, outcome, ncalls, oplog, lastDecision,
                   ctrlSent, devChanged, lastPoll, checked, other, funVars>>

\* (variant of Backoff: _start_time = time.time() taken inside the retry
\* loop, the clock started anew with every attempt)
BackoffRestartsClock ==
    /\ op.pc = "sleep"
    /\ op' = [op EXCEPT !.pc = "try", !.idx = 1, !.attempt = @ + 1,
                        !.result = IF op.fn = "write_holding_register" THEN <<0, 0>> ELSE <<>>,
                        !.elapsed = 0]
    /\ cmdElapsed' = Later(cmdElapsed, SleepTicks)
    /\ UNCHANGED <<slaveVars, clientTimeout, call, outcome, ncalls, oplog, lastDecision,
                   ctrlSent, devChanged, lastPoll, checked, other, funVars>>

\* (variant of Backoff: the retry resumes at the block that failed, with
\* the values read so far)
BackoffResumes ==
    /\ op.pc = "sleep"
    /\ op' = [op EXCEPT !.pc = "try", !.attempt = @ + 1,
                        !.elapsed = Later(@, SleepTicks)]
    /\ cmdElapsed' = Later(cmdElapsed, SleepTicks)
    /\ UNCHANGED <<slaveVars, clientTimeout, call, outcome, ncalls, oplog, lastDecision,
                   ctrlSent, devChanged, lastPoll, checked, other, funVars>>

\* time.sleep(0.05), then the retry loop starts the transfer over
Backoff ==
    /\ op.pc = "sleep"
    /\ op' = [op EXCEPT !.pc = "try", !.idx = 1, !.attempt = @ + 1,
                        !.result = IF op.fn = "write_holding_register" THEN <<0, 0>> ELSE <<>>,
                        !.elapsed = Later(@, SleepTicks)]
    /\ cmdElapsed' = Later(cmdElapsed, SleepTicks)
    /\ UNCHANGED <<slaveVars, clientTimeout, call, outcome, ncalls, oplog, lastDecision,
                   ctrlSent, devChanged, lastPoll, checked, other, funVars>>

\* Modbus exception codes the slave may answer with: illegal data address for
\* a request outside the bank, otherwise busy or a code without a name
ExceptionCodes == IF CurLegal THEN {SLAVE_DEVICE_BUSY, 11} ELSE {ILLEGAL_DATA_ADDRESS}

\* (variant: a Modbus exception handled like an invalid response, backing
\* off for another attempt)
ModbusErrorRetry ==
    /\ op.fn # "none"
    /\ Transmitting
    /\ op' = [op EXCEPT !.pc = "sleep"]
    /\ oplog' = Append(oplog, Request("exception"))
    /\ UNCHANGED <<slaveVars, clientTimeout, call, outcome, ncalls, cmdElapsed, lastDecision,
                   ctrlSent, devChanged, lastPoll, checked, other, funVars>>

\* except (modbus.ModbusError, BaseException) with a modbus.ModbusError:
\* ModbusStatus(code).name, a ValueError for a code that is not in the enum
ModbusErrorAbort ==
    /\ op.fn # "none"
    /\ Transmitting
    /\ \E code \in ExceptionCodes :
        IF code \in ModbusStatus
        THEN Raise(Ended("ModbusControlError", "modbus", <<>>, code), TRUE)
        ELSE Raise(Ended("ValueError", "modbus", <<>>, code), FALSE)
    /\ oplog' = Append(oplog, Request("exception"))
    /\ UNCHANGED <<slaveVars, call, ncalls, cmdElapsed, lastDecision, ctrlSent, devChanged,
                   lastPoll, checked, other, funVars>>

\* except (modbus.ModbusError, BaseException) with any other exception
\* (e.g. the serial port fails)
OtherErrorAbort ==
    /\ op.fn # "none"
    /\ Transmitting
    /\ Raise(Ended("ModbusControlError", "other", <<>>, 0), TRUE)
    /\ oplog' = Append(oplog, Request("other"))
    /\ UNCHANGED <<slaveVars, call, ncalls, cmdElapsed, lastDecision, ctrlSent, devChanged,
                   lastPoll, checked, other, funVars>>

\* ------------------------------------------------------------------------
\* A register method called by the caller returns
\* ------------------------------------------------------------------------
\* return {"values": _result} / {"status": _result}, receive timeout restored
Return(fn) ==
    /\ call.fn = fn
    /\ op.fn = fn
    /\ Completed
    /\ outcome' = Ended("Success", "", op.result, 0)
    /\ op' = NoOp
    /\ clientTimeout' = Restored(op.tmo, clientTimeout)
    /\ UNCHANGED <<slaveVars, call, ncalls, oplog, cmdElapsed, lastDecision, ctrlSent,
                   devChanged, lastPoll, checked, other, funVars>>

rir_return == Return("read_input_register")

rhr_return == Return("read_holding_register")

whr_return == Return("write_holding_register")

\* ------------------------------------------------------------------------
\* check_protocol_version after its read has returned
\* ------------------------------------------------------------------------
\* _version = str(round(float(_return["values"][0]*0.1), 1)), compared with
\* MODBUSCONTROL_PROTOCOL; _return["values"][0] of an empty list is an
\* IndexError
version_compared ==
    /\ call.fn = "check_protocol_version"
    /\ op.fn = "read_input_register"
    /\ Completed
    /\ IF Len(op.result) < 1
       THEN /\ outcome' = Ended("IndexError", "short", <<>>, 0)
            /\ UNCHANGED checked
       ELSE IF VersionString(op.result[1]) # MODBUSCONTROL_PROTOCOL
       THEN /\ outcome' = Ended("ModbusControlError", "version", <<>>, 0)
            /\ checked' = "mismatch"
       ELSE /\ outcome' = Ended("Success", "", <<>>, 0)
            /\ checked' = "passed"
    /\ op' = NoOp
    /\ clientTimeout' = Restored(op.tmo, clientTimeout)
    /\ UNCHANGED <<slaveVars, call, ncalls, oplog, cmdElapsed, lastDecision, ctrlSent,
                   devChanged, lastPoll, other, funVars>>

\* ------------------------------------------------------------------------
\* execute_command after the dispatch
\* ------------------------------------------------------------------------
\* (variant: num_out=1 + num_out)
PollQuantityPlain(num_out) == 1 + num_out

\* num_out=max(1 + num_out, 2)
PollQuantity(num_out) == Max(1 + num_out, 2)

\* the frame of one poll: read_holding_register(address=0, ...)
PollOp == NewOp("read_holding_register", HoldingBlocks(0, PollQuantity(call.num_out)), call.tmo, call.tc)

\* (variant of exec_dispatched: the exception of the dispatch swallowed, the
\* first poll begins also after a write that failed)
exec_dispatched_anyway ==
    /\ call.fn = "execute_command"
    /\ op.fn = "write_holding_register"
    /\ Completed \/ op.pc = "sleep"
    /\ op' = PollOp
    /\ clientTimeout' = Overridden(call.tmo, Restored(op.tmo, clientTimeout))
    /\ oplog' = <<>>
    /\ devChanged' = FALSE
    /\ UNCHANGED <<slaveVars, call, outcome, ncalls, cmdElapsed, lastDecision, ctrlSent,
                   lastPoll, checked, other, funVars>>

\* write_holding_register has returned: the first poll begins
exec_dispatched ==
    /\ call.fn = "execute_command"
    /\ op.fn = "write_holding_register"
    /\ Completed
    /\ op' = PollOp
    /\ clientTimeout' = Overridden(call.tmo, Restored(op.tmo, clientTimeout))
    /\ oplog' = <<>>
    /\ devChanged' = FALSE
    /\ UNCHANGED <<slaveVars, call, outcome, ncalls, cmdElapsed, lastDecision, ctrlSent,
                   lastPoll, checked, other, funVars>>

\* (variant of Terminate: return {"values": _reg[0:num_out]})
TerminateFromZero(reg, num_out) ==
    IF ErrorFlag(reg[1])
    THEN IF Len(reg) < 2
         THEN Ended("ModbusControlError", "short", <<>>, 0)
         ELSE LET err == DecodeError(reg[2])
              IN  IF err \in ModbusControlStatus
                  THEN Ended("ModbusControlError", "device", <<>>, err)
                  ELSE Ended("ValueError", "device", <<>>, err)
    ELSE Ended("Success", "", Slice(reg, 0, num_out), 0)

\* (variant of Terminate: the check len(_reg) < 2 left out, _reg[1] of a
\* response of one register is an IndexError)
TerminateUnchecked(reg, num_out) ==
    IF ErrorFlag(reg[1])
    THEN IF Len(reg) < 2
         THEN Ended("IndexError", "short", <<>>, 0)
         ELSE LET err == DecodeError(reg[2])
              IN  IF err \in ModbusControlStatus
                  THEN Ended("ModbusControlError", "device", <<>>, err)
                  ELSE Ended("ValueError", "device", <<>>, err)
    ELSE Ended("Success", "", Slice(reg, 1, 1 + num_out), 0)

\* the outcome for the poll response _reg whose bit15 is clear
Terminate(reg, num_out) ==
    IF ErrorFlag(reg[1])
    THEN IF Len(reg) < 2
         THEN Ended("ModbusControlError", "short", <<>>, 0)
         ELSE LET err == DecodeError(reg[2])
              IN  IF err \in ModbusControlStatus
                  THEN Ended("ModbusControlError", "device", <<>>, err)
                  ELSE Ended("ValueError", "device", <<>>, err)
    ELSE Ended("Success", "", Slice(reg, 1, 1 + num_out), 0)

\* read_holding_register has returned _reg: too short, still pending (poll
\* again at once), or completed
exec_polled ==
    /\ call.fn = "execute_command"
    /\ op.fn = "read_holding_register"
    /\ Completed
    /\ lastPoll' = op.result
    /\ IF Len(op.result) < 1
       THEN /\ outcome' = Ended("ModbusInvalidResponseError", "short", <<>>, 0)
            /\ op' = NoOp
            /\ clientTimeout' = Restored(call.tmo, Restored(op.tmo, clientTimeout))
            /\ UNCHANGED <<oplog, devChanged>>
       ELSE IF Pending(op.result[1])
       THEN /\ op' = PollOp
            /\ clientTimeout' = Overridden(call.tmo, Restored(op.tmo, clientTimeout))
            /\ oplog' = <<>>
            /\ devChanged' = FALSE
            /\ UNCHANGED outcome
       ELSE /\ outcome' = Terminate(op.result, call.num_out)
            /\ op' = NoOp
            /\ clientTimeout' = Restored(call.tmo, Restored(op.tmo, clientTimeout))
            /\ UNCHANGED <<oplog, devChanged>>
    /\ UNCHANGED <<slaveVars, call, ncalls, cmdElapsed, lastDecision, ctrlSent, checked, other, funVars>>

\* ------------------------------------------------------------------------
\* The slave completes the pending command
\* ------------------------------------------------------------------------
\* error codes the slave may store in holdReg[1]
ErrCodes == {65535, 65534, 32768, 5}

\* return values the slave may store from holdReg[1] on
DevResults == {<<>>, <<1>>}

\* bit 15 cleared, return values stored from holdReg[1] on
DeviceSuccess ==
    /\ Pending(holdReg[0])
    /\ \E r \in DevResults :
        holdReg' = Stored(Stored(holdReg, 0, <<holdReg[0] - Bit15>>), 1, r)
    /\ devChanged' = TRUE
    /\ UNCHANGED <<version, shortResp, clientTimeout, call, op, outcome, ncalls, oplog,
                   cmdElapsed, lastDecision, ctrlSent, lastPoll, checked, other, funVars>>

\* bit 15 cleared, bit 14 set, error code stored in holdReg[1]
DeviceError ==
    /\ Pending(holdReg[0])
    /\ \E e \in ErrCodes :
        holdReg' = Stored(holdReg, 0,
                          <<holdReg[0] - Bit15 + (IF ErrorFlag(holdReg[0]) THEN 0 ELSE Bit14), e>>)
    /\ devChanged' = TRUE
    /\ UNCHANGED <<version, shortResp, clientTimeout, call, op, outcome, ncalls, oplog,
                   cmdElapsed, lastDecision, ctrlSent, lastPoll, checked, other, funVars>>

\* ------------------------------------------------------------------------
\* What the caller asks for
\* ------------------------------------------------------------------------
LongValues == [i \in 1..(LongLen + 1) |-> 2000 + i]

LongParams == [i \in 1..LongLen |-> 3000 + i]

\* (timeout_modbus, timeout_command) arguments: both None, or both given
TimeoutArgs == {<<NoOverride, NoOverride>>, <<TimeoutModbusOverride, TimeoutCommandOverride>>}

InputReads == {<<0, 1>>, <<1, 2>>, <<0, LongLen + 1>>, <<3, blocksize + 1>>, <<1000, 3>>}

HoldingReads == {<<1, 3>>, <<0, LongLen + 1>>, <<1000, 3>>}

HoldingWrites == {<<1, <<1, 2, 3>>>>, <<0, LongValues>>, <<1000, <<1, 2, 3>>>>}

\* (command, param_in, num_out)
Commands == {<<32769, <<13, 1>>, 2>>, <<32769, <<13, 1>>, 0>>, <<36863, <<>>, 2>>, <<32770, LongParams, 2>>}

\* the commands called with both timeouts given
TimedCommands == {<<32769, <<13, 1>>, 2>>}

Caller ==
    \E t \in TimeoutArgs :
        \/ \E r \in InputReads : read_input_register(r[1], r[2], t[1], t[2])
        \/ \E r \in HoldingReads : read_holding_register(r[1], r[2], t[1], t[2])
        \/ \E w \in HoldingWrites : write_holding_register(w[1], w[2], t[1], t[2])
        \/ \E c \in (IF t[1] = NoOverride THEN Commands ELSE TimedCommands) :
                execute_command(c[1], c[2], c[3], t[1], t[2])

Next ==
    \/ Caller
    \/ rir_execute
    \/ rhr_execute
    \/ whr_execute
    \/ InvalidResponse
    \/ Backoff
    \/ ModbusErrorAbort
    \/ OtherErrorAbort
    \/ rir_return
    \/ rhr_return
    \/ whr_return
    \/ exec_dispatched
    \/ exec_polled
    \/ DeviceSuccess
    \/ DeviceError

Spec == Init /\ [][Next]_vars

\* the same program on a transport that may deliver fewer registers than a
\* read requested
InitShort ==
    /\ InitCommon
    /\ shortResp = TRUE
    /\ arg = 0
    /\ res = <<>>

SpecShort == InitShort /\ [][Next]_vars

\* the steps of the calling thread inside a call
ClientStep ==
    \/ rir_execute
    \/ rhr_execute
    \/ whr_execute
    \/ InvalidResponse
    \/ Backoff
    \/ ModbusErrorAbort
    \/ OtherErrorAbort
    \/ rir_return
    \/ rhr_return
    \/ whr_return
    \/ exec_dispatched
    \/ exec_polled

\* the calling thread keeps running and every transport call returns; nothing
\* obliges the slave to complete a command or the line to garble a response
FairSpec == Init /\ [][Next]_vars /\ WF_vars(ClientStep)

\* ------------------------------------------------------------------------
\* The error code conversion of execute_command on its own
\* ------------------------------------------------------------------------
InitDecode ==
    /\ InitCommon
    /\ shortResp = FALSE
    /\ arg \in 0..(Word - 1)
    /\ res = <<>>

\* _err = _reg[1], converted
decode_error ==
    /\ res = <<>>
    /\ res' = <<DecodeError(arg)>>
    /\ UNCHANGED <<holdReg, version, shortResp, clientTimeout, call, op, outcome, ncalls,
                   oplog, cmdElapsed, lastDecision, ctrlSent, devChanged, lastPoll, checked,
                   other, arg>>

NextDecode == decode_error

SpecDecode == InitDecode /\ [][NextDecode]_vars

\* ------------------------------------------------------------------------
\* The split of a transfer into blocks on its own
\* ------------------------------------------------------------------------
\* start addresses of the transfers
TransferStarts == {0, 1, 150}

\* the values of a write of n registers
TransferValues(n) == [i \in 1..n |-> 4000 + i]

\* arg is (address, number of registers)
InitSplit ==
    /\ InitCommon
    /\ shortResp = FALSE
    /\ arg \in TransferStarts \X (1..MaxTransfer)
    /\ res = <<>>

\* _blocks of the three register methods for the transfer arg
split_blocks ==
    /\ res = <<>>
    /\ res' = <<InputBlocks(arg[1], arg[2]),
                HoldingBlocks(arg[1], arg[2]),
                WriteBlocks(arg[1], TransferValues(arg[2]))>>
    /\ UNCHANGED <<holdReg, version, shortResp, clientTimeout, call, op, outcome, ncalls,
                   oplog, cmdElapsed, lastDecision, ctrlSent, devChanged, lastPoll, checked,
                   other, arg>>

NextSplit == split_blocks

SpecSplit == InitSplit /\ [][NextSplit]_vars

\* ------------------------------------------------------------------------
\* Two callers of execute_command on one connection, on a line without
\* failures; their transport calls interleave, each transport call is one step
\* ------------------------------------------------------------------------
\* the first caller is inside execute_command
InFirstExecute == call.fn = "execute_command" /\ outcome.kind = "running"

\* (variant: the connection reserved for a call from its dispatch to its return)
ReservedForCall == outcome.kind # "running"

\* execute_command reserves nothing: a caller's transport call starts whenever
\* it reaches it
TransportAvailable == TRUE

\* the second caller enters execute_command
other_execute_command(command, param_in, num_out) ==
    /\ other.pc = "idle"
    /\ other' = [other EXCEPT !.pc = "dispatch", !.command = command, !.param_in = param_in,
                              !.num_out = num_out]
    /\ UNCHANGED <<slaveVars, clientTimeout, call, op, outcome, ncalls, oplog, cmdElapsed,
                   lastDecision, ctrlSent, devChanged, lastPoll, checked, funVars>>

\* its dispatch, one block: write_holding_register(address=0, values=[command] + param_in);
\* overwrote records the first caller's call whose pending command it replaces
other_dispatch ==
    /\ other.pc = "dispatch"
    /\ TransportAvailable
    /\ Len(WriteBlocks(0, DispatchValues(other.command, other.param_in))) = 1
    /\ holdReg' = Stored(holdReg, 0, DispatchValues(other.command, other.param_in))
    /\ devChanged' = TRUE
    /\ other' = [other EXCEPT !.pc = "poll",
                              !.overwrote = IF /\ InFirstExecute
                                               /\ ctrlSent
                                               /\ holdReg[0] = call.command
                                               /\ Pending(holdReg[0])
                                            THEN ncalls ELSE 0]
    /\ UNCHANGED <<version, shortResp, clientTimeout, call, op, outcome, ncalls, oplog,
                   cmdElapsed, lastDecision, ctrlSent, lastPoll, checked, funVars>>

\* one poll of the second caller: read_holding_register(address=0, ...) has
\* returned, still pending or completed
other_polled ==
    /\ other.pc = "poll"
    /\ TransportAvailable
    /\ LET reg == RegsAt(holdReg, 0, PollQuantity(other.num_out))
       IN  other' = IF Pending(reg[1])
                    THEN other
                    ELSE [other EXCEPT !.pc = "done", !.outcome = Terminate(reg, other.num_out)]
    /\ UNCHANGED <<slaveVars, clientTimeout, call, op, outcome, ncalls, oplog, cmdElapsed,
                   lastDecision, ctrlSent, devChanged, lastPoll, checked, funVars>>

FirstCaller ==
    \E c \in Commands : execute_command(c[1], c[2], c[3], NoOverride, NoOverride)

OtherCaller ==
    other_execute_command(MODBUS_CMD_DELAY, <<100>>, 0)

NextTwo ==
    \/ FirstCaller
    \/ whr_execute
    \/ rhr_execute
    \/ exec_dispatched
    \/ exec_polled
    \/ DeviceSuccess
    \/ DeviceError
    \/ OtherCaller
    \/ other_dispatch
    \/ other_polled

SpecTwo == Init /\ [][NextTwo]_vars

\* ------------------------------------------------------------------------
\* The example application: the version check and the commands of its Client
\* ------------------------------------------------------------------------
Catalog ==
    {MODBUS_CMD_SET_PIN, MODBUS_CMD_GET_PIN, MODBUS_CMD_DELAY, MODBUS_CMD_DELAY_NOSERIAL,
     MODBUS_CMD_TEST}

CatalogCaller ==
    \/ check_protocol_version
    \/ set_pin(13, 1)
    \/ read_pin(8)
    \/ delay(100)
    \/ delay_no_serial(100)
    \/ test_command

NextCatalog ==
    \/ CatalogCaller
    \/ rir_execute
    \/ version_compared
    \/ rhr_execute
    \/ whr_execute
    \/ InvalidResponse
    \/ Backoff
    \/ ModbusErrorAbort
    \/ OtherErrorAbort
    \/ exec_dispatched
    \/ exec_polled
    \/ DeviceSuccess
    \/ DeviceError

SpecCatalog == Init /\ [][NextCatalog]_vars

\* the same application on a transport that may deliver fewer registers than
\* a read asked for
SpecShortCatalog == InitShort /\ [][NextCatalog]_vars

\* ------------------------------------------------------------------------
\* check_protocol_version on a line without failures, for every raw value
\* input register 0 of a slave may hold
\* ------------------------------------------------------------------------
InitVersion ==
    /\ InitSession
    /\ version \in 0..(Word - 1)
    /\ shortResp = FALSE
    /\ arg = 0
    /\ res = <<>>

NextVersion ==
    \/ check_protocol_version
    \/ rir_execute
    \/ version_compared

SpecVersion == InitVersion /\ [][NextVersion]_vars

\* ------------------------------------------------------------------------
\* Properties
\* ------------------------------------------------------------------------
InExecute == call.fn = "execute_command"

Dispatching == InExecute /\ op.fn = "write_holding_register"

WriteLog == \A i \in DOMAIN oplog : oplog[i].fn = "write_holding_register"

\* a write_holding_register (called directly or as dispatch) that starts at
\* address 0 and spans more than one chunk
LongWriteAtZero ==
    /\ call.fn \in {"write_holding_register", "execute_command"}
    /\ call.address = 0
    /\ Len(call.values) > blocksize
    /\ WriteLog

\* C1: in execute_command one deadline, measured from the start of the
\* dispatch write, decides for the write and for every poll whether a
\* transient failure is retried: a failure is retried only while the time
\* since the dispatch began is below the command timeout, and it ends the
\* call as a timeout once that time has reached the command timeout.
C1_SingleDeadline ==
    InExecute =>
        /\ lastDecision.kind = "retry" => lastDecision.cmdElapsed < lastDecision.T
        /\ lastDecision.kind = "abort" => lastDecision.cmdElapsed >= lastDecision.T

\* C2: every execute_command call eventually reaches a terminal outcome, also
\* when the slave keeps bit15 set and every poll succeeds.
C2_Terminates == (InExecute /\ outcome.kind = "running") ~> (outcome.kind # "running")

C4_ParamsBeforePending ==
    (Dispatching /\ ctrlSent /\ holdReg[0] = call.command /\ Pending(holdReg[0])) =>
        \A i \in 1..Len(call.param_in) : holdReg[i] = call.param_in[i]

C4_Witness ==
    /\ Dispatching
    /\ op.pc = "sleep"
    /\ ctrlSent
    /\ holdReg[0] = call.command
    /\ Pending(holdReg[0])
    /\ Len(call.param_in) >= blocksize

\* C5: a successful read_input_register of more than 100 registers returns
\* the registers address .. address+num_out-1 in ascending address order.
C5_InputReadAscending ==
    (call.fn = "read_input_register" /\ outcome.kind = "Success" /\ call.num_out > blocksize) =>
        outcome.values = RegsAt(InReg(version), call.address, call.num_out)

\* C6: a successful read_holding_register of more than 100 registers, the
\* slave's registers unchanged during the call, returns the registers
\* address .. address+num_out-1 in ascending address order.
C6_HoldingReadAscending ==
    (call.fn = "read_holding_register" /\ outcome.kind = "Success"
        /\ call.num_out > blocksize /\ ~devChanged) =>
        /\ Len(outcome.values) = call.num_out
        /\ \A i \in 1..call.num_out : outcome.values[i] = holdReg[call.address + i - 1]

C6_Witness ==
    /\ call.fn = "read_holding_register"
    /\ outcome.kind = "Success"
    /\ call.num_out > 2 * blocksize
    /\ ~devChanged
    /\ Len(oplog) > 3

\* C7: decoding the unsigned register value of a signed 16-bit code c gives
\* c, for every c in -32768..32767.
C7_DecodeRoundTrip ==
    res # <<>> =>
        /\ res[1] \in (-Bit15)..(Bit15 - 1)
        /\ res[1] % Word = arg

\* C8: a terminating poll with bit15 clear, bit14 set and at least two
\* registers ends the call as a ModbusControlError for a device error that
\* carries register 1 as signed 16-bit code, whatever register 1 holds.
C8_DeviceErrorAnyCode ==
    (InExecute /\ outcome.kind # "running" /\ Len(lastPoll) >= 2
        /\ ~Pending(lastPoll[1]) /\ ErrorFlag(lastPoll[1])) =>
        /\ outcome.kind = "ModbusControlError"
        /\ outcome.why = "device"
        /\ outcome.code = (IF lastPoll[2] > 32767 THEN lastPoll[2] - 65536 ELSE lastPoll[2])

\* C9: a successful execute_command returns exactly num_out values, whatever
\* number of registers the terminating poll delivered.
C9_ValueCount ==
    (InExecute /\ outcome.kind = "Success") => Len(outcome.values) = call.num_out

\* C10: execute_command returns Success only if the last poll response has
\* bit15 and bit14 clear, and the values returned are registers 1..num_out
\* of that response, in order.
C10_SuccessFromLastPoll ==
    (InExecute /\ outcome.kind = "Success") =>
        /\ Len(lastPoll) >= 1
        /\ ~Pending(lastPoll[1])
        /\ ~ErrorFlag(lastPoll[1])
        /\ outcome.values = [i \in 1..call.num_out |-> lastPoll[i + 1]]

C10_Witness ==
    /\ InExecute
    /\ outcome.kind = "Success"
    /\ call.command = 32769
    /\ call.param_in = <<13, 1>>
    /\ call.num_out = 2
    /\ outcome.values = <<13, 1>>

\* C11: when a call made with a timeout_modbus override has ended, by a
\* normal return or by any exception, the receive timeout of the transport
\* is the session default again.
C11_TimeoutRestored ==
    (call.tmo # NoOverride /\ outcome.kind \notin {"none", "running"}) =>
        clientTimeout = timeout_modbus

\* C12: a call ends either by returning normally or by raising
\* ModbusControlError; no other exception type leaves a call.
C12_OnlyModbusControlError ==
    outcome.kind \in {"none", "running", "Success", "ModbusControlError"}

\* C13: a transport call rejected with a Modbus exception is the last
\* transport call of the call it belongs to, and the call has then ended
\* with a failure, whatever time is left until the deadline.
C13_ExceptionNotRetried ==
    \A i \in DOMAIN oplog :
        oplog[i].result = "exception" =>
            /\ i = Len(oplog)
            /\ op = NoOp
            /\ outcome.kind \in {"ModbusControlError", "ValueError"}
            /\ outcome.why = "modbus"

C13_Witness ==
    /\ call.fn = "read_input_register"
    /\ call.address = 1000
    /\ Len(oplog) = 1
    /\ oplog[1].result = "exception"
    /\ cmdElapsed < EffectiveTimeout(call.tc)
    /\ outcome = Ended("ModbusControlError", "modbus", <<>>, ILLEGAL_DATA_ADDRESS)

\* the step observes an invalid response of the running register method
TransientFailureObserved ==
    /\ Len(oplog') = Len(oplog) + 1
    /\ oplog'[Len(oplog')].result = "invalid"

\* C14: in every register method, an invalid response observed while the
\* time since the method started is below the command timeout leads to the
\* 50 ms backoff, after which the transfer starts over as the next attempt;
\* one observed at or after the command timeout ends the call as a timeout;
\* so a call ends as a timeout only on an invalid response observed at or
\* after the command timeout, never when an attempt succeeds.
C14_RetryUntilDeadline ==
    /\ [][TransientFailureObserved =>
            /\ lastDecision'.opElapsed \in {Later(op.elapsed, d) : d \in 1..MaxDur}
            /\ lastDecision'.T = op.T
            /\ IF lastDecision'.opElapsed < op.T
               THEN /\ op'.pc = "sleep"
                    /\ outcome'.kind = "running"
               ELSE outcome' = Ended("ModbusControlError", "timeout", <<>>, 0)]_vars
    /\ [][(op.pc = "sleep" /\ op' # op) =>
            /\ op'.pc = "try"
            /\ op'.idx = 1
            /\ op'.attempt = op.attempt + 1
            /\ op'.elapsed = Later(op.elapsed, SleepTicks)]_vars
    /\ [](outcome.why = "timeout" =>
            /\ oplog[Len(oplog)].result = "invalid"
            /\ lastDecision.opElapsed >= lastDecision.T)

C14_Witness ==
    /\ InExecute
    /\ op.fn = "read_holding_register"
    /\ Completed
    /\ Len(oplog) = 3
    /\ oplog[1].result = "invalid"
    /\ oplog[2].result = "invalid"
    /\ oplog[3].ok
    /\ oplog[3].attempt = 3

\* C15: a retry attempt that runs to success has ended within the command
\* timeout measured from the start of the register method: once the command
\* timeout is exceeded no attempt of the method succeeds.
C15_TimeoutMonotone ==
    (Completed /\ op.attempt > 1) => op.elapsed <= op.T

\* C16: on a line without failures check_protocol_version issues exactly one
\* request, a read of one input register at address 0, and passes if and
\* only if that register holds 10; for every other value it ends with the
\* version mismatch ModbusControlError, the read not repeated.
C16_VersionCheck ==
    (call.fn = "check_protocol_version" /\ outcome.kind # "running") =>
        /\ Len(oplog) = 1
        /\ oplog[1].fn = "read_input_register"
        /\ oplog[1].address = 0
        /\ oplog[1].quantity = 1
        /\ outcome.kind = "Success" <=> version = 10
        /\ outcome.kind # "Success" => outcome = Ended("ModbusControlError", "version", <<>>, 0)

C16_Witness ==
    /\ call.fn = "check_protocol_version"
    /\ version = 11
    /\ Len(oplog) = 1
    /\ outcome = Ended("ModbusControlError", "version", <<>>, 0)

\* C17: every transport write of an execute_command dispatch is issued on a
\* session on which a version comparison has been made and has passed.
C17_CheckedBeforeDispatch ==
    (Dispatching /\ oplog # <<>>) => checked = "passed"

\* the step leaves a state in which a poll of execute_command has returned a
\* response whose register 0 has bit 15 set
PendingPollReturned ==
    /\ InExecute
    /\ op.fn = "read_holding_register"
    /\ Completed
    /\ Len(op.result) >= 1
    /\ op.result[1] >= Bit15
    /\ op' # op

\* C18: a poll response with bit 15 set in register 0 does not end the call:
\* the caller's next step starts another read of the holding registers whose
\* next request is at address 0, no time having passed; and a call that has
\* ended with Success or with a device error has a last poll with bit 15
\* clear.
C18_PendingPollsAgain ==
    /\ [][PendingPollReturned =>
            /\ outcome'.kind = "running"
            /\ op'.fn = "read_holding_register"
            /\ op'.pc = "try"
            /\ op'.attempt = 1
            /\ op'.elapsed = 0
            /\ op'.blocks[op'.idx][1] = 0
            /\ cmdElapsed' = cmdElapsed]_vars
    /\ []((InExecute /\ (outcome.kind = "Success" \/ outcome.why = "device")) =>
            /\ Len(lastPoll) >= 1
            /\ lastPoll[1] < Bit15)

C18_Witness ==
    /\ InExecute
    /\ outcome.kind = "running"
    /\ Len(lastPoll) >= 1
    /\ lastPoll[1] >= Bit15
    /\ op.fn = "read_holding_register"
    /\ op.pc = "try"
    /\ op.idx = 1
    /\ op.elapsed = 0
    /\ oplog = <<>>

\* C20: while execute_command dispatches a command of the example Client,
\* the first value of the block it writes at address 0 is the command code
\* of the call, with bit 15 set and bit 14 clear, and that is the value
\* holding register 0 has once the block has reached the slave, until the
\* slave changes it.
C20_ControlWordIsCommand ==
    (Dispatching /\ call.command \in Catalog) =>
        /\ \A k \in DOMAIN op.blocks :
              op.blocks[k][1] = 0 =>
                  /\ op.blocks[k][2][1] = call.command
                  /\ (op.blocks[k][2][1] \div Bit15) % 2 = 1
                  /\ (op.blocks[k][2][1] \div Bit14) % 2 = 0
        /\ \E k \in DOMAIN op.blocks : op.blocks[k][1] = 0
        /\ (ctrlSent /\ ~devChanged) => holdReg[0] = call.command

C20_Witness ==
    /\ Dispatching
    /\ call.command = MODBUS_CMD_TEST
    /\ ctrlSent
    /\ ~devChanged
    /\ holdReg[0] = 49151

\* the second caller's dispatch has replaced the pending command of the first
\* caller's current call
Overtaken == InExecute /\ other.overwrote = ncalls

\* C19: nothing holds the second caller back: whenever it is at its dispatch
\* the dispatch can be issued, also while a call of the first caller is
\* running; and when the dispatch has replaced the first caller's pending
\* command, the first caller's call ends on a poll whose control word is
\* that of the second caller's command, not of its own.
C19_NoLocking ==
    /\ other.pc = "dispatch" => ENABLED other_dispatch
    /\ (Overtaken /\ outcome.kind # "running") =>
            /\ Len(lastPoll) >= 2
            /\ lastPoll[1] % Bit14 = other.command % Bit14
            /\ lastPoll[1] % Bit14 # call.command % Bit14

C19_Witness ==
    /\ Overtaken
    /\ outcome.kind = "Success"
    /\ call.command = 32769
    /\ call.num_out = 2
    /\ other.command = MODBUS_CMD_DELAY
    /\ lastPoll[1] = MODBUS_CMD_DELAY - Bit15
    /\ outcome.values = <<100, 1>>

\* C21: a successful write_holding_register of more than 100 values, the
\* slave not changing a register during the call, returns the status
\* (address, number of values) and leaves the holding registers address ..
\* address+len-1 equal to the values, in order.
C21_ChunkedWriteAsOne ==
    (call.fn = "write_holding_register" /\ outcome.kind = "Success"
        /\ Len(call.values) > blocksize /\ ~devChanged) =>
        /\ outcome.values = <<call.address, Len(call.values)>>
        /\ \A i \in 1..Len(call.values) : holdReg[call.address + i - 1] = call.values[i]

C21_Witness ==
    /\ call.fn = "write_holding_register"
    /\ outcome.kind = "Success"
    /\ Len(call.values) > 2 * blocksize
    /\ ~devChanged
    /\ outcome.values = <<0, Len(call.values)>>
    /\ Len(oplog) = 3

\* the blocks (start, length) are contiguous from address a, hold between 1
\* and 100 registers each, end at a + n and number ceil(n / 100)
Partition(blocks, a, n) ==
    /\ Len(blocks) = (n + blocksize - 1) \div blocksize
    /\ \A k \in DOMAIN blocks : blocks[k][2] \in 1..blocksize
    /\ blocks[1][1] = a
    /\ \A k \in 1..(Len(blocks) - 1) : blocks[k + 1][1] = blocks[k][1] + blocks[k][2]
    /\ blocks[Len(blocks)][1] + blocks[Len(blocks)][2] = a + n

\* C22: for a transfer of n >= 1 registers from address a, the blocks of
\* read_input_register, and in reverse the blocks of read_holding_register
\* and of write_holding_register, are contiguous, do not overlap, cover
\* exactly a .. a+n-1, hold 1 to 100 registers each and number ceil(n/100);
\* each block of the write holds the values of its addresses.
C22_BlocksPartition ==
    res # <<>> =>
        LET a      == arg[1]
            n      == arg[2]
            writes == Reverse(res[3])
        IN  /\ Partition(res[1], a, n)
            /\ Partition(Reverse(res[2]), a, n)
            /\ Partition([k \in DOMAIN writes |-> <<writes[k][1], Len(writes[k][2])>>], a, n)
            /\ \A k \in DOMAIN writes :
                  \A i \in 1..Len(writes[k][2]) :
                      writes[k][2][i] = TransferValues(n)[writes[k][1] - a + i]

C22_Witness ==
    /\ res # <<>>
    /\ arg = <<0, 1000>>
    /\ Len(res[1]) = 10
    /\ \A k \in 1..10 : res[1][k] = <<(k - 1) * 100, 100>>

\* C23: an execute_command call ends on a poll response without registers
\* only when the command timeout has elapsed since the call began; before
\* that it polls again.
C23_EmptyPollRetried ==
    (InExecute /\ outcome.kind # "running" /\ outcome.why = "short" /\ Len(lastPoll) < 1) =>
        cmdElapsed >= EffectiveTimeout(call.tc)

\* C24: an execute_command call whose last poll delivered exactly one
\* register, bit 15 clear and bit 14 set, has ended with the
\* ModbusControlError for a too short response: not with Success and not
\* with a device error code.
C24_ShortErrorResponse ==
    (InExecute /\ outcome.kind # "running" /\ Len(lastPoll) = 1
        /\ lastPoll[1] < Bit15 /\ (lastPoll[1] \div Bit14) % 2 = 1) =>
        outcome = Ended("ModbusControlError", "short", <<>>, 0)

C24_Witness ==
    /\ InExecute
    /\ call.command = MODBUS_CMD_GET_PIN
    /\ call.num_out = 2
    /\ lastPoll = <<MODBUS_CMD_GET_PIN - Bit15 + Bit14>>
    /\ outcome = Ended("ModbusControlError", "short", <<>>, 0)

\* the caller called read_input_register or read_holding_register
InRead == call.fn \in {"read_input_register", "read_holding_register"}

\* number of blocks of a transfer of n registers
NumBlocks(n) == (n + blocksize - 1) \div blocksize

\* C25: a read_input_register or read_holding_register call that returned
\* values returns exactly num_out of them and its last ceil(num_out / 100)
\* requests, one per block, all succeeded within one attempt; a call that
\* ended otherwise returned no values.
C25_NoPartialRead ==
    InRead =>
        /\ outcome.kind = "Success" =>
              LET nb == NumBlocks(call.num_out)
                  n  == Len(oplog)
              IN  /\ Len(outcome.values) = call.num_out
                  /\ n >= nb
                  /\ \A i \in (n - nb + 1)..n :
                        oplog[i].ok /\ oplog[i].attempt = oplog[n].attempt
        /\ outcome.kind \notin {"none", "running", "Success"} => outcome.values = <<>>

C25_Witness ==
    /\ InRead
    /\ outcome.kind = "Success"
    /\ call.num_out > 2 * blocksize
    /\ Len(outcome.values) = call.num_out
    /\ Len(oplog) = 5
    /\ oplog[1].ok /\ ~oplog[2].ok
    /\ oplog[5].attempt = 2

\* C26: while execute_command dispatches, a polling read begins only when
\* every block of [command] + param_in was written and acknowledged within
\* one attempt; when the call ends in the dispatch it ends in failure and
\* no polling read was requested.
C26_DispatchBeforePoll ==
    [][Dispatching =>
        /\ op'.fn = "read_holding_register" =>
              LET nb == NumBlocks(Len(call.values))
                  n  == Len(oplog)
              IN  /\ op.idx = nb + 1
                  /\ n >= nb
                  /\ \A i \in (n - nb + 1)..n :
                        /\ oplog[i].fn = "write_holding_register"
                        /\ oplog[i].ok
                        /\ oplog[i].attempt = oplog[n].attempt
                  /\ op' = PollOp
        /\ outcome'.kind # "running" =>
              /\ outcome'.kind # "Success"
              /\ lastPoll' = <<>>
              /\ \A i \in DOMAIN oplog' : oplog'[i].fn = "write_holding_register"
    ]_vars

C26_Witness ==
    /\ InExecute
    /\ Len(call.values) > blocksize
    /\ op = PollOp
    /\ oplog = <<>>
    /\ lastPoll = <<>>
    /\ ctrlSent
    /\ lastDecision.kind = "retry"

\* C27: every polling read of execute_command asks for holding registers
\* from address 0, 1 + num_out of them when num_out >= 1 and 2 of them
\* when num_out = 0, in the frame of the read and in every request sent.
C27_PollQuantity ==
    InExecute =>
        LET q == IF call.num_out >= 1 THEN 1 + call.num_out ELSE 2
        IN  /\ op.fn = "read_holding_register" => op.blocks = <<<<0, q>>>>
            /\ \A i \in DOMAIN oplog :
                  oplog[i].fn = "read_holding_register" =>
                      oplog[i].address = 0 /\ oplog[i].quantity = q

C27_Witness ==
    /\ InExecute
    /\ call.command = MODBUS_CMD_SET_PIN
    /\ call.num_out = 0
    /\ outcome.kind = "Success"
    /\ Len(oplog) = 1
    /\ oplog[1].fn = "read_holding_register"
    /\ oplog[1].quantity = 2
    /\ Len(lastPoll) = 2

\* the caller called one of the three register methods
InRegisterMethod ==
    call.fn \in {"read_input_register", "read_holding_register", "write_holding_register"}

\* C28: in a call of read_input_register, read_holding_register or
\* write_holding_register the clock of the retry deadline shows the time
\* since the call began, at every block and in every attempt; the call
\* retried only when less than the command timeout had passed since it
\* began and gave up only when at least the timeout had passed.
C28_ClockFromCallStart ==
    InRegisterMethod =>
        /\ op.fn # "none" => op.elapsed = cmdElapsed
        /\ lastDecision.kind # "none" =>
              /\ lastDecision.opElapsed = lastDecision.cmdElapsed
              /\ lastDecision.T = EffectiveTimeout(call.tc)
        /\ lastDecision.kind = "retry" => lastDecision.cmdElapsed < EffectiveTimeout(call.tc)
        /\ lastDecision.kind = "abort" => lastDecision.cmdElapsed >= EffectiveTimeout(call.tc)

C28_Witness ==
    /\ call.fn = "write_holding_register"
    /\ Len(call.values) > blocksize
    /\ call.tc = NoOverride
    /\ outcome = Ended("ModbusControlError", "timeout", <<>>, 0)
    /\ lastDecision.kind = "abort"
    /\ lastDecision.cmdElapsed = timeout_command
    /\ Len(oplog) = 3
    /\ ~oplog[1].ok /\ oplog[2].ok /\ ~oplog[3].ok
    /\ oplog[3].attempt = 2
    /\ oplog[3].address < oplog[2].address

\* C29: the requests one read_holding_register call sends within one
\* attempt go to strictly descending addresses, and the request that
\* completes an attempt is the one at the lowest address, the address of
\* the call.
C29_HoldingReadDescending ==
    call.fn = "read_holding_register" =>
        /\ \A i, j \in DOMAIN oplog :
              (i < j /\ oplog[i].attempt = oplog[j].attempt) =>
                  oplog[i].address > oplog[j].address
        /\ \A i \in DOMAIN oplog : oplog[i].address >= call.address
        /\ outcome.kind = "Success" => oplog[Len(oplog)].address = call.address

C29_Witness ==
    /\ call.fn = "read_holding_register"
    /\ call.address = 0
    /\ call.num_out > 2 * blocksize
    /\ outcome.kind = "Success"
    /\ Len(oplog) = 3
    /\ oplog[1].address = 2 * blocksize
    /\ oplog[2].address = blocksize
    /\ oplog[3].address = 0

\* the registers delivered by the requests log[i..n], merged the way the
\* read methods merge them: _result = list(_reg) + _result
RECURSIVE Collected(_, _, _, _, _)
Collected(bank, log, i, n, acc) ==
    IF i > n THEN acc
    ELSE Collected(bank, log, i + 1, n, RegsAt(bank, log[i].address, log[i].quantity) \o acc)

\* C30: in a call of a register method the request after a transient
\* failure belongs to the next attempt and is the first block of the
\* transfer again, the request after a success is the next block of the
\* same attempt, and the values a read returns are those delivered by the
\* requests of its last attempt alone.
C30_RetryFromFirstBlock ==
    InRegisterMethod =>
        /\ \A i \in 1..(Len(oplog) - 1) :
              IF oplog[i].result = "invalid"
              THEN /\ oplog[i + 1].attempt = oplog[i].attempt + 1
                   /\ oplog[i + 1].address = oplog[1].address
                   /\ oplog[i + 1].quantity = oplog[1].quantity
              ELSE /\ oplog[i].ok
                   /\ oplog[i + 1].attempt = oplog[i].attempt
                   /\ oplog[i + 1].address # oplog[1].address
        /\ (InRead /\ outcome.kind = "Success" /\ ~devChanged) =>
              LET n    == Len(oplog)
                  nb   == NumBlocks(call.num_out)
                  bank == IF call.fn = "read_input_register" THEN InReg(version) ELSE holdReg
              IN  outcome.values = Collected(bank, oplog, n - nb + 1, n, <<>>)

C30_Witness ==
    /\ call.fn = "read_holding_register"
    /\ call.address = 0
    /\ call.num_out > 2 * blocksize
    /\ outcome.kind = "Success"
    /\ Len(oplog) = 6
    /\ oplog[1].ok /\ oplog[2].ok /\ oplog[3].result = "invalid"
    /\ oplog[4].address = oplog[1].address
    /\ oplog[6].attempt = 2
    /\ outcome.values = RegsAt(holdReg, 0, call.num_out)

\* C31: once the control word of an execute_command call has reached the
\* device and the device has completed the command (bit 15 cleared), the
\* call does not set bit 15 again: the command is dispatched at most once.
C31_DispatchedOnce ==
    [][(InExecute /\ ctrlSent /\ ~Pending(holdReg[0])) => ~Pending(holdReg'[0])]_vars

\* C32: no step of a call made without a timeout_modbus override, of any
\* method and on any path, changes the receive timeout of the transport:
\* not the begin of the call, not a retry, not its return and not its
\* failure.
C32_TimeoutUntouched ==
    [][call'.tmo = NoOverride => clientTimeout' = clientTimeout]_vars

C32_Witness ==
    /\ InExecute
    /\ call.tmo = NoOverride
    /\ outcome = Ended("ModbusControlError", "timeout", <<>>, 0)
    /\ lastDecision.kind = "abort"
    /\ lastPoll # <<>>
    /\ Len(oplog) >= 2
    /\ clientTimeout = timeout_modbus

====
